---- MODULE Spec2Model ----
(***************************************************************************)
(* Model of generate_data.py: SensorDataGenerator and main().              *)
(*                                                                         *)
(* Numbers.  A probability or a random.random() draw x is the integer      *)
(* x * RandomScale.  A sensor value is the integer value * 10^Decimals of  *)
(* its sensor (temp in tenths, pressure in hundredths, vibration in        *)
(* thousandths), the precision generate_sensor_value rounds to.  Strings   *)
(* (timestamps, labels, CSV lines) are strings.                            *)
(***************************************************************************)
EXTENDS Integers, Sequences, FiniteSets, TLC

VARIABLES pc, num_rows, normal_prob, abnormal_prob, null_prob,
          i, data, sampled, df, csv_file, stats

vars == <<pc, num_rows, normal_prob, abnormal_prob, null_prob,
          i, data, sampled, df, csv_file, stats>>

(***************************************************************************)
(* Bounds of the model.                                                    *)
(***************************************************************************)
\* largest --num_rows explored
MaxRows == 2

\* random.random() returns a float in [0, 1): draw / RandomScale
RandomScale == 1000

\* the draws explored for a threshold test: the least and the greatest
\* value of [0, 1) and the two values around each threshold of the code
RandomDraws == {0, 499, 500, 699, 700, 999}

\* the draws explored inside random.uniform: both ends of [0, 1)
UniformDraws == {0, 999}

\* the command-line probabilities explored, below 0 and above 1 included;
\* 950, 300 and 50 are the defaults of main()
NormalProbValues == {-500, 0, 950, 1000, 1500}
AbnormalProbValues == {-500, 0, 300, 1000, 1500}
NullProbValues == {-500, 0, 50, 1000, 1500}

(***************************************************************************)
(* SensorDataGenerator.__init__                                            *)
(***************************************************************************)
SensorNames == <<"temp", "pressure", "vibration">>

\* round(value, 1), round(value, 2), round(value, 3)
Decimals(sensor_name) ==
    CASE sensor_name = "temp" -> 1
      [] sensor_name = "pressure" -> 2
      [] sensor_name = "vibration" -> 3

\* the ranges, in units of 10^-Decimals(sensor)
sensor_params ==
    [temp      |-> [normal_range  |-> <<450, 500>>,
                    abnormal_high |-> <<520, 600>>,
                    abnormal_low  |-> <<350, 430>>],
     pressure  |-> [normal_range  |-> <<100, 105>>,
                    abnormal_high |-> <<108, 115>>,
                    abnormal_low  |-> <<90, 97>>],
     vibration |-> [normal_range  |-> <<20, 40>>,
                    abnormal_high |-> <<70, 120>>,
                    abnormal_low  |-> <<1, 15>>]]

start_time ==
    [year |-> 2024, month |-> 6, day |-> 3, hour |-> 19, minute |-> 0, second |-> 0]

(***************************************************************************)
(* datetime + timedelta(minutes = n), and strftime('%Y-%m-%d %H:%M:%S')    *)
(***************************************************************************)
IsLeap(y) == (y % 4 = 0 /\ y % 100 # 0) \/ y % 400 = 0

DaysInMonth(y, m) ==
    IF m = 2 THEN (IF IsLeap(y) THEN 29 ELSE 28)
    ELSE IF m \in {4, 6, 9, 11} THEN 30 ELSE 31

RECURSIVE AddDays(_, _)
AddDays(t, n) ==
    IF n = 0 THEN t
    ELSE IF t.day < DaysInMonth(t.year, t.month)
         THEN AddDays([t EXCEPT !.day = t.day + 1], n - 1)
    ELSE IF t.month < 12
         THEN AddDays([t EXCEPT !.day = 1, !.month = t.month + 1], n - 1)
    ELSE AddDays([t EXCEPT !.day = 1, !.month = 1, !.year = t.year + 1], n - 1)

\* timedelta(hours = n) in place of timedelta(minutes = n)
AddMinutes_Hours(t, n) ==
    LET m == t.hour * 60 + t.minute + 60 * n
    IN  AddDays([t EXCEPT !.hour = (m % 1440) \div 60, !.minute = m % 60],
                m \div 1440)

AddMinutes(t, n) ==
    LET m == t.hour * 60 + t.minute + n
    IN  AddDays([t EXCEPT !.hour = (m % 1440) \div 60, !.minute = m % 60],
                m \div 1440)

DigitChar(d) == SubSeq("0123456789", d + 1, d + 1)

\* n in decimal, zero-padded on the left to at least width digits
RECURSIVE ZeroPad(_, _)
ZeroPad(n, width) ==
    IF n < 10 /\ width <= 1 THEN DigitChar(n)
    ELSE ZeroPad(n \div 10, width - 1) \o DigitChar(n % 10)

strftime(t) ==
    ZeroPad(t.year, 4) \o "-" \o ZeroPad(t.month, 2) \o "-" \o ZeroPad(t.day, 2)
    \o " " \o ZeroPad(t.hour, 2) \o ":" \o ZeroPad(t.minute, 2)
    \o ":" \o ZeroPad(t.second, 2)

(***************************************************************************)
(* generate_sensor_value                                                   *)
(***************************************************************************)
\* round(x, d) of x = raw / RandomScale units: round half to even
Round(raw) ==
    LET q == raw \div RandomScale
        r == raw % RandomScale
    IN  IF 2 * r > RandomScale THEN q + 1
        ELSE IF 2 * r < RandomScale THEN q
        ELSE IF q % 2 = 0 THEN q ELSE q + 1

\* random.uniform(min_val, min_val + max_val)
Uniform_NoDiff(range, u) == range[1] * RandomScale + range[2] * u

\* random.uniform(min_val, max_val) = min_val + (max_val - min_val) * random(),
\* in units of 10^-Decimals / RandomScale
Uniform(range, u) == range[1] * RandomScale + (range[2] - range[1]) * u

\* the probabilities of the two labels swapped
generate_sensor_value_Swapped(sensor_name, is_normal_label, np, ap, r_range, r_coin, u) ==
    LET params == sensor_params[sensor_name]
        prob_in_normal == IF is_normal_label THEN ap ELSE np
        range == IF r_range < prob_in_normal THEN params.normal_range
                 ELSE IF r_coin < 500 THEN params.abnormal_high
                 ELSE params.abnormal_low
    IN  Round(Uniform(range, u))

\* random.random() <= prob_in_normal
generate_sensor_value_Le(sensor_name, is_normal_label, np, ap, r_range, r_coin, u) ==
    LET params == sensor_params[sensor_name]
        prob_in_normal == IF is_normal_label THEN np ELSE ap
        range == IF r_range <= prob_in_normal THEN params.normal_range
                 ELSE IF r_coin < 500 THEN params.abnormal_high
                 ELSE params.abnormal_low
    IN  Round(Uniform(range, u))

\* random.random() < abs(prob_in_normal)
generate_sensor_value_Abs(sensor_name, is_normal_label, np, ap, r_range, r_coin, u) ==
    LET params == sensor_params[sensor_name]
        p == IF is_normal_label THEN np ELSE ap
        prob_in_normal == IF p < 0 THEN -p ELSE p
        range == IF r_range < prob_in_normal THEN params.normal_range
                 ELSE IF r_coin < 500 THEN params.abnormal_high
                 ELSE params.abnormal_low
    IN  Round(Uniform(range, u))

\* the value returned for the draws r_range (line 58), r_coin (line 63) and
\* u (line 69)
generate_sensor_value(sensor_name, is_normal_label, np, ap, r_range, r_coin, u) ==
    LET params == sensor_params[sensor_name]
        prob_in_normal == IF is_normal_label THEN np ELSE ap
        range == IF r_range < prob_in_normal THEN params.normal_range
                 ELSE IF r_coin < 500 THEN params.abnormal_high
                 ELSE params.abnormal_low
    IN  Round(Uniform(range, u))

(***************************************************************************)
(* generate_row                                                            *)
(***************************************************************************)
\* a sensor field of a row: '' or a float
Empty == [kind |-> "str", val |-> 0]
Float(v) == [kind |-> "float", val |-> v]

\* random.random() <= null_prob
SensorField_Le(sensor_name, is_normal_label, np, ap, zp, r_null, r_range, r_coin, u) ==
    IF r_null <= zp
    THEN [field |-> Empty, called |-> FALSE]
    ELSE [field |-> Float(generate_sensor_value(sensor_name, is_normal_label,
                                                np, ap, r_range, r_coin, u)),
          called |-> TRUE]

\* one pass of the loop over the sensors, for the draws r_null (line 110) and
\* those of generate_sensor_value: the field, and whether it was called
SensorField(sensor_name, is_normal_label, np, ap, zp, r_null, r_range, r_coin, u) ==
    IF r_null < zp
    THEN [field |-> Empty, called |-> FALSE]
    ELSE [field |-> Float(generate_sensor_value(sensor_name, is_normal_label,
                                                np, ap, r_range, r_coin, u)),
          called |-> TRUE]

\* the draws of one pass
SensorDraws == RandomDraws \X RandomDraws \X RandomDraws \X UniformDraws

\* every outcome of one pass
SensorOutcomes(sensor_name, is_normal_label, np, ap, zp) ==
    {SensorField(sensor_name, is_normal_label, np, ap, zp, d[1], d[2], d[3], d[4]) :
        d \in SensorDraws}

\* every (row_data, sensors sampled) generate_row can return for row_num
generate_row(row_num, np, ap, zp) ==
    LET timestamp == AddMinutes(start_time, row_num)
        stamp == strftime(timestamp)
    IN  UNION {
          LET label == IF is_normal_label THEN "normal" ELSE "abnormal"
              T == SensorOutcomes("temp", is_normal_label, np, ap, zp)
              P == SensorOutcomes("pressure", is_normal_label, np, ap, zp)
              V == SensorOutcomes("vibration", is_normal_label, np, ap, zp)
          IN  {[row_data |-> [timestamp |-> stamp,
                              label     |-> label,
                              temp      |-> o[1].field,
                              pressure  |-> o[2].field,
                              vibration |-> o[3].field],
                called |-> {SensorNames[k] : k \in {k \in 1..3 : o[k].called}}] :
                 o \in T \X P \X V}
          : is_normal_label \in {r < 700 : r \in RandomDraws}}

(***************************************************************************)
(* pandas: DataFrame(list of dicts), to_csv(index=False), value_counts     *)
(***************************************************************************)
\* the columns are the keys of the dicts, in insertion order; an empty list
\* gives a frame without columns
DataFrame(rows) ==
    [columns |-> IF rows = <<>> THEN <<>>
                 ELSE <<"timestamp", "label", "temp", "pressure", "vibration">>,
     rows    |-> rows]

RECURSIVE StripZeros(_)
StripZeros(s) ==
    IF Len(s) > 1 /\ SubSeq(s, Len(s), Len(s)) = "0"
    THEN StripZeros(SubSeq(s, 1, Len(s) - 1))
    ELSE s

RECURSIVE Pow10(_)
Pow10(d) == IF d = 0 THEN 1 ELSE 10 * Pow10(d - 1)

\* repr of the float v / 10^decimals: "45.0", "1.05", "0.001"
FloatRepr(v, decimals) ==
    ZeroPad(v \div Pow10(decimals), 1) \o "."
    \o StripZeros(ZeroPad(v % Pow10(decimals), decimals))

\* a missing value written as a token
CellText_NullToken(row, column) ==
    IF column \in {"timestamp", "label"} THEN row[column]
    ELSE IF row[column].kind = "float"
         THEN FloatRepr(row[column].val, Decimals(column))
    ELSE "NULL"

\* the text the csv writer emits for one cell
CellText(row, column) ==
    IF column \in {"timestamp", "label"} THEN row[column]
    ELSE IF row[column].kind = "float"
         THEN FloatRepr(row[column].val, Decimals(column))
    ELSE ""

RECURSIVE Join(_)
Join(cells) ==
    IF cells = <<>> THEN ""
    ELSE IF Len(cells) = 1 THEN cells[1]
    ELSE cells[1] \o "," \o Join(Tail(cells))

\* the lines of the file: the header, then one line per row
to_csv(frame) ==
    <<Join(frame.columns)>> \o
    [k \in 1..Len(frame.rows) |->
        Join([c \in 1..Len(frame.columns) |->
                 CellText(frame.rows[k], frame.columns[c])])]

Column(frame, column) == [k \in 1..Len(frame.rows) |-> frame.rows[k][column]]

\* df[column].value_counts(): only the values that occur
value_counts(cells) ==
    [v \in {cells[k] : k \in 1..Len(cells)} |->
        Cardinality({k \in 1..Len(cells) : cells[k] = v})]

isna(cell) == cell.kind = "nan"

\* df[col].isna().sum() + (df[col] == '').sum()
null_count(cells) ==
    Cardinality({k \in 1..Len(cells) : isna(cells[k])})
    + Cardinality({k \in 1..Len(cells) : cells[k] = Empty})

(***************************************************************************)
(* main(): parse_args, generate_dataset, to_csv, print_statistics          *)
(***************************************************************************)
\* no frame, no statistics yet
None == <<>>
Some(x) == <<x>>

\* the state main() starts generate_dataset in, for the parsed arguments
InitArgs(rows, normal_probs, abnormal_probs, null_probs) ==
    /\ pc = "generate_dataset"
    /\ num_rows \in rows
    /\ normal_prob \in normal_probs
    /\ abnormal_prob \in abnormal_probs
    /\ null_prob \in null_probs
    /\ i = 0
    /\ data = <<>>
    /\ sampled = <<>>
    /\ df = None
    /\ csv_file = <<>>
    /\ stats = None

\* datasets of up to MaxRows rows, every value drawn in its normal range
\* (--normal_prob 1 --abnormal_prob 1) and every --null_prob
InitDataset == InitArgs(0..MaxRows, {1000}, {1000}, NullProbValues)

\* datasets of at most one row, for every combination of the probabilities
InitRow == InitArgs({0, 1}, NormalProbValues, AbnormalProbValues, NullProbValues)

\* data.insert(0, row_data)
GenerateRow_Prepend ==
    /\ pc = "generate_dataset"
    /\ i < num_rows
    /\ \E r \in generate_row(i, normal_prob, abnormal_prob, null_prob) :
          /\ data' = <<r.row_data>> \o data
          /\ sampled' = <<r.called>> \o sampled
    /\ i' = i + 1
    /\ UNCHANGED <<pc, num_rows, normal_prob, abnormal_prob, null_prob,
                   df, csv_file, stats>>

\* one pass of the loop of generate_dataset: data.append(generate_row(i, ...))
GenerateRow ==
    /\ pc = "generate_dataset"
    /\ i < num_rows
    /\ \E r \in generate_row(i, normal_prob, abnormal_prob, null_prob) :
          /\ data' = Append(data, r.row_data)
          /\ sampled' = Append(sampled, r.called)
    /\ i' = i + 1
    /\ UNCHANGED <<pc, num_rows, normal_prob, abnormal_prob, null_prob,
                   df, csv_file, stats>>

\* the loop is over: return pd.DataFrame(data)
ReturnDataFrame ==
    /\ pc = "generate_dataset"
    /\ i >= num_rows
    /\ df' = Some(DataFrame(data))
    /\ pc' = "to_csv"
    /\ UNCHANGED <<num_rows, normal_prob, abnormal_prob, null_prob,
                   i, data, sampled, csv_file, stats>>

\* df.to_csv(args.output, index=False)
WriteCsv ==
    /\ pc = "to_csv"
    /\ csv_file' = to_csv(df[1])
    /\ pc' = "print_statistics"
    /\ UNCHANGED <<num_rows, normal_prob, abnormal_prob, null_prob,
                   i, data, sampled, df, stats>>

\* generator.print_statistics(df, ...): df['label'] raises KeyError when the
\* frame has no such column, after the total was printed
PrintStatistics ==
    /\ pc = "print_statistics"
    /\ LET frame == df[1]
           has(c) == \E k \in 1..Len(frame.columns) : frame.columns[k] = c
       IN  IF ~has("label")
           THEN /\ stats' = Some([total |-> Len(frame.rows)])
                /\ pc' = "KeyError"
           ELSE /\ stats' = Some(
                     [total        |-> Len(frame.rows),
                      label_counts |-> value_counts(Column(frame, "label")),
                      null_counts  |->
                          [c \in {"temp", "pressure", "vibration"} |->
                              null_count(Column(frame, c))]])
                /\ pc' = "done"
    /\ UNCHANGED <<num_rows, normal_prob, abnormal_prob, null_prob,
                   i, data, sampled, df, csv_file>>

Next == GenerateRow \/ ReturnDataFrame \/ WriteCsv \/ PrintStatistics

SpecDataset == InitDataset /\ [][Next]_vars

SpecRow == InitRow /\ [][Next]_vars

(***************************************************************************)
(* Vocabulary of the properties                                            *)
(***************************************************************************)
Sensors == {"temp", "pressure", "vibration"}

Ranges == {"normal_range", "abnormal_high", "abnormal_low"}

InRange(v, range) == range[1] <= v /\ v <= range[2]

Present(row, s) == row[s].kind = "float"

Missing(row, s) == row[s] = Empty

\* generate_dataset has returned the frame
Returned == pc \in {"to_csv", "print_statistics", "done", "KeyError"}

\* to_csv has just written the file
Written == pc = "print_statistics"

\* parsing a delimited line: its fields, from the one that starts at from
RECURSIVE SplitFields(_, _, _)
SplitFields(s, k, from) ==
    IF k > Len(s) THEN <<SubSeq(s, from, Len(s))>>
    ELSE IF SubSeq(s, k, k) = ","
         THEN <<SubSeq(s, from, k - 1)>> \o SplitFields(s, k + 1, k + 1)
    ELSE SplitFields(s, k + 1, from)

Split(s) == SplitFields(s, 1, 1)

\* parsing the file: the fields of the header and of every data line
ParseCsv(lines) ==
    [header |-> Split(lines[1]),
     rows   |-> [k \in 1..(Len(lines) - 1) |-> Split(lines[k + 1])]]

\* the cell of data row k of a parsed file under the header's column name;
\* a line shorter than the header has no value there
ParsedCell(parsed, k, name) ==
    LET at == {c \in 1..Len(parsed.header) : parsed.header[c] = name}
    IN  IF at = {} THEN ""
        ELSE LET c == CHOOSE c \in at : TRUE
             IN  IF c <= Len(parsed.rows[k]) THEN parsed.rows[k][c] ELSE ""

\* the number a string of digits denotes
RECURSIVE NumberOf(_)
NumberOf(s) ==
    IF s = "" THEN 0
    ELSE 10 * NumberOf(SubSeq(s, 1, Len(s) - 1))
         + (CHOOSE d \in 0..9 : DigitChar(d) = SubSeq(s, Len(s), Len(s)))

\* days from 2024-01-01 to the first day of month m of year y (y >= 2024)
RECURSIVE DaysBefore(_, _)
DaysBefore(y, m) ==
    IF y = 2024 /\ m = 1 THEN 0
    ELSE IF m = 1 THEN DaysBefore(y - 1, 12) + 31
    ELSE DaysBefore(y, m - 1) + DaysInMonth(y, m - 1)

\* seconds from 2024-01-01 00:00:00 to a 'YYYY-MM-DD HH:MM:SS' timestamp
SecondsOf(ts) ==
    ((DaysBefore(NumberOf(SubSeq(ts, 1, 4)), NumberOf(SubSeq(ts, 6, 7)))
        + NumberOf(SubSeq(ts, 9, 10)) - 1) * 1440
     + NumberOf(SubSeq(ts, 12, 13)) * 60
     + NumberOf(SubSeq(ts, 15, 16))) * 60
    + NumberOf(SubSeq(ts, 18, 19))

WellFormedTimestamp(ts) ==
    /\ Len(ts) = 19
    /\ SubSeq(ts, 5, 5) = "-" /\ SubSeq(ts, 8, 8) = "-" /\ SubSeq(ts, 11, 11) = " "
    /\ SubSeq(ts, 14, 14) = ":" /\ SubSeq(ts, 17, 17) = ":"

\* a probability as the comparison with a draw of [0, 1) sees it
Clamp(p) == IF p <= 0 THEN 0 ELSE IF p >= RandomScale THEN RandomScale ELSE p

RowDatas(row_num, np, ap, zp) == {r.row_data : r \in generate_row(row_num, np, ap, zp)}

\* row is what the steps of generate_row give for row_num: the timestamp of
\* that index, a label, and per sensor a field its pass of the loop can leave
CanReturn(row, row_num, np, ap, zp) ==
    /\ DOMAIN row = {"timestamp", "label"} \cup Sensors
    /\ row.timestamp = strftime(AddMinutes(start_time, row_num))
    /\ \E is_normal_label \in BOOLEAN :
          /\ row.label = IF is_normal_label THEN "normal" ELSE "abnormal"
          /\ \A s \in Sensors :
                \E d \in SensorDraws :
                    SensorField(s, is_normal_label, np, ap, zp,
                                d[1], d[2], d[3], d[4]).field = row[s]

\* the sum of f over S
RECURSIVE SumOver(_, _)
SumOver(f, S) ==
    IF S = {} THEN 0
    ELSE LET x == CHOOSE x \in S : TRUE IN f[x] + SumOver(f, S \ {x})

\* a sensor value in thousandths, the unit the three sensors share
Milli(s, v) == v * Pow10(3 - Decimals(s))

(***************************************************************************)
(* C1: generate_dataset returns exactly num_rows rows, and row i (from 0)  *)
(* is a result of generate_row(i, ...): while the loop runs data holds the *)
(* rows of the indices before i, in index order.                           *)
(***************************************************************************)
C1_LengthAndIndexOrder ==
    /\ Len(data) = i
    /\ i <= num_rows
    /\ Returned => /\ Len(df[1].rows) = num_rows
                   /\ df[1].rows = data
    /\ pc = "to_csv" =>
          \A k \in 1..num_rows :
              CanReturn(df[1].rows[k], k - 1, normal_prob, abnormal_prob, null_prob)

C1_Witness ==
    /\ pc = "to_csv"
    /\ num_rows >= 2
    /\ Len(df[1].rows) = num_rows
    /\ df[1].rows[1].label # df[1].rows[2].label

(***************************************************************************)
(* C2: row 0 carries the timestamp 2024-06-03 19:00:00 and each later row  *)
(* a timestamp exactly one minute (60 seconds) after the row before it,    *)
(* whatever the draws.                                                     *)
(***************************************************************************)
C2_TimestampsOneMinuteApart ==
    pc = "to_csv" =>
        LET rows == df[1].rows
        IN  /\ \A k \in 1..Len(rows) : WellFormedTimestamp(rows[k].timestamp)
            /\ Len(rows) >= 1 => rows[1].timestamp = "2024-06-03 19:00:00"
            /\ \A k \in 1..(Len(rows) - 1) :
                  SecondsOf(rows[k + 1].timestamp) = SecondsOf(rows[k].timestamp) + 60

C2_Witness ==
    /\ pc = "to_csv"
    /\ Len(df[1].rows) >= 2
    /\ df[1].rows[2].timestamp = "2024-06-03 19:01:00"

(***************************************************************************)
(* C3: with null_prob = 0 no sensor field of any row is missing, and with  *)
(* null_prob = 1 every sensor field of every row is missing.               *)
(***************************************************************************)
C3_NullProbExtremes ==
    /\ null_prob = 0 =>
          \A k \in 1..Len(data) : \A s \in Sensors : Present(data[k], s)
    /\ null_prob = RandomScale =>
          \A k \in 1..Len(data) : \A s \in Sensors : Missing(data[k], s)

C3_Witness ==
    /\ null_prob = RandomScale
    /\ normal_prob = 950
    /\ abnormal_prob = 300
    /\ Len(data) = 1
    /\ \A s \in Sensors : Missing(data[1], s)

(***************************************************************************)
(* C4: with normal_prob = 1, every value present in a row labelled normal  *)
(* lies in the normal range of its sensor, bounds included, whatever       *)
(* abnormal_prob is.                                                       *)
(***************************************************************************)
C4_NormalLabelInNormalRange ==
    normal_prob = RandomScale =>
        \A k \in 1..Len(data) : \A s \in Sensors :
            (data[k].label = "normal" /\ Present(data[k], s))
                => InRange(data[k][s].val, sensor_params[s].normal_range)

C4_Witness ==
    /\ normal_prob = RandomScale
    /\ abnormal_prob = 0
    /\ Len(data) = 1
    /\ data[1].label = "normal"
    /\ Present(data[1], "temp") /\ data[1].temp.val = 500
    /\ Present(data[1], "pressure") /\ data[1].pressure.val = 100
    /\ Missing(data[1], "vibration")

(***************************************************************************)
(* C5: with abnormal_prob = 0, every value present in a row labelled       *)
(* abnormal lies in the abnormal-high or the abnormal-low range of its     *)
(* sensor and not in the normal range, whatever normal_prob is.            *)
(***************************************************************************)
C5_AbnormalLabelInAbnormalRange ==
    abnormal_prob = 0 =>
        \A k \in 1..Len(data) : \A s \in Sensors :
            (data[k].label = "abnormal" /\ Present(data[k], s))
                => /\ \/ InRange(data[k][s].val, sensor_params[s].abnormal_high)
                      \/ InRange(data[k][s].val, sensor_params[s].abnormal_low)
                   /\ ~InRange(data[k][s].val, sensor_params[s].normal_range)

C5_Witness ==
    /\ abnormal_prob = 0
    /\ normal_prob = RandomScale
    /\ Len(data) = 1
    /\ data[1].label = "abnormal"
    /\ Present(data[1], "temp") /\ data[1].temp.val = 520
    /\ Present(data[1], "pressure") /\ data[1].pressure.val = 97
    /\ Present(data[1], "vibration") /\ data[1].vibration.val = 120

(***************************************************************************)
(* C6: the written file is the header timestamp,label,temp,pressure,       *)
(* vibration followed by one line per row, in index order, a missing       *)
(* value being an empty field; for every num_rows >= 0.                    *)
(***************************************************************************)
C6_FileIsHeaderThenRows ==
    Written =>
        LET parsed == ParseCsv(csv_file)
        IN  /\ Len(csv_file) = num_rows + 1
            /\ csv_file[1] = "timestamp,label,temp,pressure,vibration"
            /\ \A k \in 1..num_rows :
                  /\ Len(parsed.rows[k]) = 5
                  /\ ParsedCell(parsed, k, "timestamp") = data[k].timestamp
                  /\ ParsedCell(parsed, k, "label") = data[k].label
                  /\ \A s \in Sensors :
                        Missing(data[k], s) <=> ParsedCell(parsed, k, s) = ""

(***************************************************************************)
(* C7: for every num_rows >= 0 the statistics step completes and reports   *)
(* the total num_rows, per-label counts that are the numbers of rows with  *)
(* that label and sum to the total, and per sensor the number of rows      *)
(* whose field is missing.                                                 *)
(***************************************************************************)
C7_StatisticsCompleteAndExact ==
    /\ pc # "KeyError"
    /\ pc = "done" =>
          LET st == stats[1]
          IN  /\ st.total = num_rows
              /\ \A l \in DOMAIN st.label_counts :
                    st.label_counts[l] =
                        Cardinality({k \in 1..Len(data) : data[k].label = l})
              /\ SumOver(st.label_counts, DOMAIN st.label_counts) = st.total
              /\ \A s \in Sensors :
                    st.null_counts[s] =
                        Cardinality({k \in 1..Len(data) : Missing(data[k], s)})

(***************************************************************************)
(* C8: parsing the written file back gives, per label, as many rows as the *)
(* dataset has with that label and, per sensor, as many non-missing values *)
(* as the dataset has: a missing field stays missing and a present value   *)
(* stays present.                                                          *)
(***************************************************************************)
C8_RoundTripCounts ==
    Written =>
        LET parsed == ParseCsv(csv_file)
            parsed_rows == 1..Len(parsed.rows)
        IN  /\ \A l \in {"normal", "abnormal"} :
                  Cardinality({k \in parsed_rows : ParsedCell(parsed, k, "label") = l})
                  = Cardinality({k \in 1..Len(data) : data[k].label = l})
            /\ \A s \in Sensors :
                  Cardinality({k \in parsed_rows : ParsedCell(parsed, k, s) # ""})
                  = Cardinality({k \in 1..Len(data) : Present(data[k], s)})

C8_Witness ==
    /\ Written
    /\ Len(data) = 2
    /\ data[1].label = "normal" /\ data[2].label = "abnormal"
    /\ Missing(data[1], "temp") /\ Present(data[2], "temp")
    /\ csv_file[2] = "2024-06-03 19:00:00,normal,,1.0,0.04"
    /\ csv_file[3] = "2024-06-03 19:01:00,abnormal,45.0,1.05,"

(***************************************************************************)
(* C9: probabilities outside [0, 1] lead to no error: generating           *)
(* num_rows >= 1 rows completes with num_rows well-formed rows, and a      *)
(* probability <= 0 behaves as 0 and one >= 1 as 1 (the rows that can be   *)
(* generated are those of the clamped probabilities).                      *)
(***************************************************************************)
C9_OutOfRangeProbabilities ==
    /\ num_rows >= 1 => pc # "KeyError"
    /\ (num_rows >= 1 /\ Returned) => Len(df[1].rows) = num_rows
    /\ \A k \in 1..Len(data) :
          /\ DOMAIN data[k] = {"timestamp", "label"} \cup Sensors
          /\ WellFormedTimestamp(data[k].timestamp)
          /\ data[k].label \in {"normal", "abnormal"}
          /\ \A s \in Sensors : Missing(data[k], s) \/ Present(data[k], s)
    /\ (pc = "generate_dataset" /\ i < num_rows) =>
          RowDatas(i, normal_prob, abnormal_prob, null_prob)
          = RowDatas(i, Clamp(normal_prob), Clamp(abnormal_prob), Clamp(null_prob))
    /\ \A k \in 1..Len(data) :
          CanReturn(data[k], k - 1, Clamp(normal_prob), Clamp(abnormal_prob),
                    Clamp(null_prob))

C9_Witness ==
    /\ pc = "done"
    /\ num_rows = 1
    /\ normal_prob = -500 /\ abnormal_prob = 1500 /\ null_prob = -500
    /\ data[1].label = "normal"
    /\ data[1].temp.val = 600

(***************************************************************************)
(* C10: in every generated row the label is normal or abnormal, and each   *)
(* sensor field is the missing marker or a number inside one of the three  *)
(* ranges of that same sensor (so in no gap between them and in no range   *)
(* of another sensor); a value was sampled for exactly the fields the null *)
(* draw did not mark missing.                                              *)
(***************************************************************************)
C10_RowInvariant ==
    /\ Len(sampled) = Len(data)
    /\ \A k \in 1..Len(data) :
          /\ data[k].label \in {"normal", "abnormal"}
          /\ \A s \in Sensors :
                /\ Missing(data[k], s) \/ Present(data[k], s)
                /\ Present(data[k], s) =>
                      /\ \E g \in Ranges : InRange(data[k][s].val, sensor_params[s][g])
                      /\ \A o \in Sensors \ {s} : \A g \in Ranges :
                            ~InRange(Milli(s, data[k][s].val),
                                     <<Milli(o, sensor_params[o][g][1]),
                                       Milli(o, sensor_params[o][g][2])>>)
                /\ s \in sampled[k] <=> ~Missing(data[k], s)

C10_Witness ==
    /\ normal_prob = 950 /\ abnormal_prob = 300 /\ null_prob = 50
    /\ Len(data) = 1
    /\ data[1].label = "normal"
    /\ Missing(data[1], "temp")
    /\ Present(data[1], "pressure") /\ data[1].pressure.val = 115
    /\ Present(data[1], "vibration") /\ data[1].vibration.val = 1
    /\ sampled[1] = {"pressure", "vibration"}

====
